---------------------------- MODULE Spec2Model ----------------------------
(***************************************************************************)
(* A model of the rpcap codec: the Decoder (src/src/read.rs), the Encoder  *)
(* (src/src/write.rs) and the wire layout and time codec (src/src/def.rs). *)
(*                                                                         *)
(* Streams are sequences of bytes (0..255).  A 32-bit (or wider) integer   *)
(* is kept at full width as a pair <<hi, lo>> that stands for              *)
(* hi * 65536 + lo with lo in 0..65535, because the values of the format   *)
(* (0xffffffff, ts_sec + utc_offset) do not fit the checker's integers.    *)
(***************************************************************************)
EXTENDS Integers, Sequences, FiniteSets, TLC

VARIABLES
    target_endian,  \* "little" or "big": cfg(target_endian) of the build
    feature_time,   \* cfg(feature = "time"): Time is Timespec, else SystemTime
    input,          \* the bytes the source of the PcapReader has supplied so far
    rpos,           \* the source's cursor: bytes of input already consumed
    opened,         \* "no" before PcapReader::new, then "yes" or "failed"
    state,          \* PcapReader.state: None or Some(PcapState)
    ropts,          \* the FileOptions PcapReader::new returned (None before)
    res,            \* what the last call on the PcapReader returned
    last,           \* the last call: its name and the reader as it found it
    pc,             \* position of the caller's loop
    sink,           \* the bytes held by the writer's sink
    wpos,           \* the sink's cursor
    wopts,          \* PcapWriter.opts (None while there is no PcapWriter)
    wres,           \* what the last call on the PcapWriter returned
    written,        \* the caller's record of the outcome of each write
    want            \* the caller's own data: what it asked for and expects

vars == <<target_endian, feature_time, input, rpos, opened, state, ropts, res,
          last, pc, sink, wpos, wopts, wres, written, want>>

None == [some |-> FALSE]

-----------------------------------------------------------------------------
(* Integers at full width *)

Num(i) == <<i \div 65536, i % 65536>>

NumLt(a, b) == a[1] < b[1] \/ (a[1] = b[1] /\ a[2] < b[2])

NumLe(a, b) == a = b \/ NumLt(a, b)

NumMin(a, b) == IF NumLt(b, a) THEN b ELSE a

NumAdd(a, b) ==
    LET s == a[2] + b[2]
    IN  <<a[1] + b[1] + (s \div 65536), s % 65536>>

NumSub(a, b) ==
    LET d == a[2] - b[2]
    IN  <<a[1] - b[1] + (d \div 65536), d % 65536>>

(* the value of a Num known to be small *)
NumInt(a) == a[1] * 65536 + a[2]

IsU32(a) == a[1] >= 0 /\ a[1] <= 65535

IsU64(a) == a[1] >= 0

(* u32::swap_bytes *)
swap_bytes32(v) ==
    <<(v[2] % 256) * 256 + (v[2] \div 256), (v[1] % 256) * 256 + (v[1] \div 256)>>

(* u16::swap_bytes *)
swap_bytes16(v) == (v % 256) * 256 + (v \div 256)

(* i32 from the 32 bits of a u32 (two's complement), and back *)
AsI32(v) == IF v[1] >= 32768 THEN <<v[1] - 65536, v[2]>> ELSE v

AsU32(v) == <<v[1] % 65536, v[2]>>

-----------------------------------------------------------------------------
(* Memory layout: a value of a repr(C, packed) struct read from, or written *)
(* as, raw bytes in the byte order of the target.                          *)

NativeU16(b, endian) ==
    IF endian = "little" THEN b[1] + 256 * b[2] ELSE 256 * b[1] + b[2]

NativeU32(b, endian) ==
    IF endian = "little"
      THEN <<b[3] + 256 * b[4], b[1] + 256 * b[2]>>
      ELSE <<256 * b[1] + b[2], 256 * b[3] + b[4]>>

BytesU16(v, endian) ==
    IF endian = "little" THEN <<v % 256, v \div 256>> ELSE <<v \div 256, v % 256>>

BytesU32(v, endian) ==
    IF endian = "little"
      THEN <<v[2] % 256, v[2] \div 256, v[1] % 256, v[1] \div 256>>
      ELSE <<v[1] \div 256, v[1] % 256, v[2] \div 256, v[2] % 256>>

Slice(s, from, n) == SubSeq(s, from + 1, from + n)

-----------------------------------------------------------------------------
(* def.rs: the file header *)

PCAP_VERSION_MAJOR == 2

PCAP_VERSION_MINOR == 4

(* enum PcapMagic: the discriminants *)
PcapMagic_into(magic) ==
    CASE magic = "Normal" -> <<41394, 50132>>                      \* 0xa1b2_c3d4
      [] magic = "NanoSecondResolution" -> <<41394, 15437>>         \* 0xa1b2_3c4d
      [] magic = "ByteSwap" -> swap_bytes32(<<41394, 50132>>)
      [] magic = "NanoSecondResolutionByteSwap" -> swap_bytes32(<<41394, 15437>>)

PcapMagic_try_from(val) ==
    IF val = PcapMagic_into("Normal") THEN "Normal"
    ELSE IF val = PcapMagic_into("NanoSecondResolution") THEN "NanoSecondResolution"
    ELSE IF val = PcapMagic_into("ByteSwap") THEN "ByteSwap"
    ELSE IF val = PcapMagic_into("NanoSecondResolutionByteSwap")
      THEN "NanoSecondResolutionByteSwap"
    ELSE "Err"

need_byte_swap_micro_only(magic) == magic = "ByteSwap"

need_byte_swap(magic) == magic \in {"ByteSwap", "NanoSecondResolutionByteSwap"}

ns_res(magic) == magic \in {"NanoSecondResolution", "NanoSecondResolutionByteSwap"}

(* struct PcapFileHeaderInFile *)
RawFileHeader(magic_num, major, minor, zone, snaplen, network) ==
    [magic_num |-> magic_num, version_major |-> major, version_minor |-> minor,
     thiszone |-> zone, sigfigs |-> <<0, 0>>, snaplen |-> snaplen,
     network |-> network]

(* Packed for PcapFileHeaderInFile *)
switch_endianness_fh(h) ==
    [magic_num |-> swap_bytes32(h.magic_num),
     version_major |-> swap_bytes16(h.version_major),
     version_minor |-> swap_bytes16(h.version_minor),
     thiszone |-> AsI32(swap_bytes32(AsU32(h.thiszone))),
     sigfigs |-> swap_bytes32(h.sigfigs),
     snaplen |-> swap_bytes32(h.snaplen),
     network |-> swap_bytes32(h.network)]

(* usize::try_from(u32): usize has at least 32 bits on every target that has *)
(* std::io, so the conversion yields the value.                              *)
usize_try_from(v) == [some |-> TRUE, val |-> v]

(* u32::try_from(usize) *)
u32_try_from(v) == IF IsU32(v) THEN [some |-> TRUE, val |-> v] ELSE None

PcapFileHeader_try_from(header) ==
    LET magic == PcapMagic_try_from(header.magic_num)
        h == IF need_byte_swap(magic) THEN switch_endianness_fh(header) ELSE header
        snaplen == usize_try_from(h.snaplen)
    IN  IF magic = "Err" THEN None
        ELSE IF ~snaplen.some THEN None
        ELSE IF h.version_major = PCAP_VERSION_MAJOR
                /\ h.version_minor = PCAP_VERSION_MINOR
          THEN [some |-> TRUE,
                ns_res |-> ns_res(magic),
                need_byte_swap |-> need_byte_swap(magic),
                network |-> h.network,
                utc_offset |-> h.thiszone,
                snaplen |-> snaplen.val]
        ELSE None

(* NativeUnpacker::unpack::<PcapFileHeaderInFile> on 24 bytes *)
unpack_fh(b, endian) ==
    [magic_num |-> NativeU32(Slice(b, 0, 4), endian),
     version_major |-> NativeU16(Slice(b, 4, 2), endian),
     version_minor |-> NativeU16(Slice(b, 6, 2), endian),
     thiszone |-> AsI32(NativeU32(Slice(b, 8, 4), endian)),
     sigfigs |-> NativeU32(Slice(b, 12, 4), endian),
     snaplen |-> NativeU32(Slice(b, 16, 4), endian),
     network |-> NativeU32(Slice(b, 20, 4), endian)]

(* NativePacker::pack of a PcapFileHeaderInFile: the inverse layout *)
pack_fh(h, endian) ==
    BytesU32(h.magic_num, endian) \o BytesU16(h.version_major, endian)
      \o BytesU16(h.version_minor, endian) \o BytesU32(AsU32(h.thiszone), endian)
      \o BytesU32(h.sigfigs, endian) \o BytesU32(h.snaplen, endian)
      \o BytesU32(h.network, endian)

-----------------------------------------------------------------------------
(* def.rs: the record header and the time codec *)

switch_endianness_rh_orig_len_forgotten(h) ==
    [ts_sec |-> swap_bytes32(h.ts_sec),
     ts_usec |-> swap_bytes32(h.ts_usec),
     incl_len |-> swap_bytes32(h.incl_len),
     orig_len |-> h.orig_len]

(* Packed for PcapRecordHeader *)
switch_endianness_rh(h) ==
    [ts_sec |-> swap_bytes32(h.ts_sec),
     ts_usec |-> swap_bytes32(h.ts_usec),
     incl_len |-> swap_bytes32(h.incl_len),
     orig_len |-> swap_bytes32(h.orig_len)]

unpack_rh(b, endian) ==
    [ts_sec |-> NativeU32(Slice(b, 0, 4), endian),
     ts_usec |-> NativeU32(Slice(b, 4, 4), endian),
     incl_len |-> NativeU32(Slice(b, 8, 4), endian),
     orig_len |-> NativeU32(Slice(b, 12, 4), endian)]

pack_rh(h, endian) ==
    BytesU32(h.ts_sec, endian) \o BytesU32(h.ts_usec, endian)
      \o BytesU32(h.incl_len, endian) \o BytesU32(h.orig_len, endian)

wrapping_mul_1000(v) ==
    LET lo == v[2] * 1000
        hi == v[1] * 1000 + (lo \div 65536)
    IN  [some |-> TRUE, val |-> <<hi % 65536, lo % 65536>>]

(* u32::checked_mul(1000) *)
checked_mul_1000(v) ==
    LET lo == v[2] * 1000
        hi == v[1] * 1000 + (lo \div 65536)
    IN  IF hi > 65535 THEN None ELSE [some |-> TRUE, val |-> <<hi, lo % 65536>>]

(* make_time: Timespec::new(sec, nsec) with the "time" feature; without it  *)
(* UNIX_EPOCH.checked_add(Duration::new(sec.try_into().ok()?, nsec)).       *)
make_time(sec, nsec, time_feature) ==
    IF time_feature
      THEN [some |-> TRUE, sec |-> sec, nsec |-> nsec]
      ELSE IF IsU64(sec) THEN [some |-> TRUE, sec |-> sec, nsec |-> nsec] ELSE None

get_time(rh, file_header, time_feature) ==
    LET nsec == IF file_header.ns_res
                  THEN [some |-> TRUE, val |-> rh.ts_usec]
                  ELSE checked_mul_1000(rh.ts_usec)
        sec == NumAdd(rh.ts_sec, file_header.utc_offset)
    IN  IF ~nsec.some THEN None
        ELSE IF NumLt(nsec.val, Num(1000000000))
          THEN make_time(sec, nsec.val, time_feature)
        ELSE None

-----------------------------------------------------------------------------
(* read.rs: PcapReader *)

Ok_None == [kind |-> "None"]

Err(e) == [kind |-> "Err", err |-> e]

Panic == [kind |-> "Panic"]

Opts(fh) ==
    [some |-> TRUE,
     snaplen |-> fh.snaplen,
     linktype |-> fh.network,
     high_res_timestamps |-> fh.ns_res,
     non_native_byte_order |-> fh.need_byte_swap]

exceeds_dos_limit_inclusive(snaplen) == NumLe(Num(1610612736), snaplen)

(* DOS protection: fh.snaplen > 0x60000000 *)
exceeds_dos_limit(snaplen) == NumLt(Num(1610612736), snaplen)

(* PcapReader::new on a source holding stream, cursor at 0.  The result:    *)
(* res (what new returns), opts and state (of the PcapReader, when there   *)
(* is one) and pos, the source's cursor afterwards.  read_exact consumes    *)
(* what the source has when it fails.                                       *)
PcapReader_new(stream, endian) ==
    IF Len(stream) < 24
      THEN [res |-> Err("Io"), opts |-> None, state |-> None, pos |-> Len(stream)]
    ELSE
      LET fh == PcapFileHeader_try_from(unpack_fh(Slice(stream, 0, 24), endian))
      IN  IF ~fh.some
            THEN [res |-> Err("InvalidFileHeader"), opts |-> None, state |-> None,
                  pos |-> 24]
          ELSE IF exceeds_dos_limit(fh.snaplen)
            THEN [res |-> Err("InvalidFileHeader"), opts |-> None, state |-> None,
                  pos |-> 24]
          ELSE [res |-> [kind |-> "Opened"],
                opts |-> Opts(fh),
                state |-> [some |-> TRUE, file_header |-> fh,
                           packet_buffer_len |-> fh.snaplen],
                pos |-> 24]

drop_excess_forgotten(excess, remaining) == 0

(* io::copy(&mut reader.take(excess), &mut io::sink()): the number of bytes *)
(* it consumes; it ends quietly where the source ends.                      *)
drop_excess(excess, remaining) == NumInt(NumMin(excess, Num(remaining)))

size_to_read_unclamped(buffer_len, size_in_pcap) == size_in_pcap

(* size_to_read: usize::min(state.packet_buffer.len(), size_in_pcap) *)
size_to_read_of(buffer_len, size_in_pcap) == NumMin(buffer_len, size_in_pcap)

(* The part of PcapReader::next after the record header rh was unpacked and *)
(* the state unwrapped: the payload (pos is the cursor after the header).   *)
next_payload(stream, pos, st, rh, time_feature) ==
    LET size_in_pcap == usize_try_from(rh.incl_len)
        size_to_read == size_to_read_of(st.packet_buffer_len, size_in_pcap.val)
        avail == Len(stream) - pos
    IN  IF ~size_in_pcap.some
          THEN [res |-> Err("InvalidPacketSize"), pos |-> pos, state |-> st]
        ELSE IF NumLt(Num(avail), size_to_read)
          \* read_exact: UnexpectedEof, converted by `?`
          THEN [res |-> Err("Io"), pos |-> Len(stream), state |-> st]
        ELSE
          LET n == NumInt(size_to_read)
              buf == Slice(stream, pos, n)
              excess == NumSub(size_in_pcap.val, size_to_read)
              dropped == drop_excess(excess, avail - n)
              pos2 == pos + n + dropped
              orig_len == usize_try_from(rh.orig_len)
              t == get_time(rh, st.file_header, time_feature)
          IN  IF ~orig_len.some
                THEN [res |-> Err("InvalidPacketSize"), pos |-> pos2, state |-> st]
              ELSE IF t.some
                THEN [res |-> [kind |-> "Packet",
                               time |-> [sec |-> t.sec, nsec |-> t.nsec],
                               data |-> buf,
                               orig_len |-> orig_len.val],
                      pos |-> pos2, state |-> st]
              ELSE [res |-> Err("InvalidDate"), pos |-> pos2, state |-> st]

(* PcapReader::next.  io_error: the source answers the read of the record   *)
(* header with an error of a kind other than UnexpectedEof.                 *)
PcapReader_next(stream, pos, st, endian, time_feature, io_error) ==
    IF io_error
      THEN [res |-> Err("Io"), pos |-> pos, state |-> st]
    ELSE IF Len(stream) - pos < 16
      \* unpack's read_exact: UnexpectedEof, after no byte or after some
      THEN [res |-> Ok_None, pos |-> Len(stream), state |-> None]
    ELSE
      LET raw == unpack_rh(Slice(stream, pos, 16), endian)
          rh == IF st.some /\ st.file_header.need_byte_swap
                  THEN switch_endianness_rh(raw)
                  ELSE raw
      IN  IF ~st.some
            \* self.state.as_mut().unwrap() on None
            THEN [res |-> Panic, pos |-> pos + 16, state |-> st]
          ELSE next_payload(stream, pos + 16, st, rh, time_feature)

-----------------------------------------------------------------------------
(* def.rs and write.rs: PcapWriter *)

PcapFileHeaderInFile_new_always_micro(opts) ==
    LET snaplen == u32_try_from(opts.snaplen)
    IN  IF ~snaplen.some THEN None
        ELSE [some |-> TRUE,
              header |-> RawFileHeader(PcapMagic_into("Normal"),
                                       PCAP_VERSION_MAJOR, PCAP_VERSION_MINOR,
                                       <<0, 0>>, snaplen.val, opts.linktype)]

(* PcapFileHeaderInFile::new *)
PcapFileHeaderInFile_new(opts) ==
    LET magic == IF opts.high_res_timestamps THEN "NanoSecondResolution"
                                             ELSE "Normal"
        snaplen == u32_try_from(opts.snaplen)
    IN  IF ~snaplen.some THEN None
        ELSE [some |-> TRUE,
              header |-> RawFileHeader(PcapMagic_into(magic),
                                       PCAP_VERSION_MAJOR, PCAP_VERSION_MINOR,
                                       <<0, 0>>, snaplen.val, opts.linktype)]

(* def::write_file_header and def::write_record_header are called by        *)
(* write.rs and defined in no file at hand: they lay the header out in the  *)
(* byte order the options ask for.                                          *)
write_file_header(fh, non_native, endian) ==
    pack_fh(IF non_native THEN switch_endianness_fh(fh) ELSE fh, endian)

write_record_header(rh, non_native, endian) ==
    pack_rh(IF non_native THEN switch_endianness_rh(rh) ELSE rh, endian)

(* io::Write on a Cursor<Vec<u8>>: overwrite from pos, growing the vector;  *)
(* a Vec<u8> is the case pos = Len(bytes).                                  *)
write_all(bytes, pos, data) ==
    [bytes |-> Slice(bytes, 0, pos) \o data
                 \o Slice(bytes, pos + Len(data), Len(bytes) - pos - Len(data)),
     pos |-> pos + Len(data)]

(* PcapWriter::append: wraps the writer; it reads nothing and seeks nowhere *)
PcapWriter_append(bytes, pos, opts) ==
    [res |-> [kind |-> "Writer"], bytes |-> bytes, pos |-> pos, opts |-> opts]

(* PcapWriter::new on a writer holding bytes with its cursor at pos *)
PcapWriter_new(bytes, pos, opts, endian) ==
    LET fh == PcapFileHeaderInFile_new(opts)
    IN  IF ~fh.some
          THEN [res |-> Err("InvalidFileHeader"), bytes |-> bytes, pos |-> pos,
                opts |-> None]
          ELSE LET w == write_all(bytes, pos,
                                  write_file_header(fh.header,
                                                    opts.non_native_byte_order,
                                                    endian))
               IN  PcapWriter_append(w.bytes, w.pos, opts)

(* the sub-second value write stores: packet.time.nsec as u32, unconverted *)
subsec_to_store(nsec, high_res) == AsU32(nsec)

PcapWriter_write_before_validating(bytes, pos, opts, packet, endian) ==
    LET record_header ==
            [ts_sec |-> AsU32(packet.time.sec),
             ts_usec |-> subsec_to_store(packet.time.nsec,
                                         opts.high_res_timestamps),
             incl_len |-> Num(Len(packet.data)),
             orig_len |-> AsU32(packet.orig_len)]
        w == write_all(bytes, pos,
                       write_record_header(record_header,
                                           opts.non_native_byte_order, endian)
                         \o packet.data)
    IN  IF ~IsU32(packet.time.sec)
          THEN [res |-> Err("InvalidDate"), bytes |-> w.bytes, pos |-> w.pos]
        ELSE IF \/ NumLt(opts.snaplen, Num(Len(packet.data)))
                \/ ~IsU32(packet.orig_len)
          THEN [res |-> Err("InvalidPacketSize"), bytes |-> w.bytes, pos |-> w.pos]
        ELSE [res |-> [kind |-> "Written"], bytes |-> w.bytes, pos |-> w.pos]

(* PcapWriter::write of packet = [time, data, orig_len] *)
PcapWriter_write(bytes, pos, opts, packet, endian) ==
    IF ~IsU32(packet.time.sec)
      THEN [res |-> Err("InvalidDate"), bytes |-> bytes, pos |-> pos]
    ELSE IF \/ NumLt(opts.snaplen, Num(Len(packet.data)))
            \/ ~IsU32(packet.orig_len)
      THEN [res |-> Err("InvalidPacketSize"), bytes |-> bytes, pos |-> pos]
    ELSE
      LET record_header ==
              [ts_sec |-> packet.time.sec,
               ts_usec |-> subsec_to_store(packet.time.nsec,
                                           opts.high_res_timestamps),
               incl_len |-> Num(Len(packet.data)),
               orig_len |-> packet.orig_len]
          w == write_all(bytes, pos,
                         write_record_header(record_header,
                                             opts.non_native_byte_order, endian)
                           \o packet.data)
      IN  [res |-> [kind |-> "Written"], bytes |-> w.bytes, pos |-> w.pos]

-----------------------------------------------------------------------------
(* Capture files as bytes.  A file is laid out from its logical header and  *)
(* records, every field in the byte order of the file.                      *)

MaxPayload == 3

MaxCut == 2

MaxYield == 1

U32Max == <<65535, 65535>>

(* the byte order of a file that is, or is not, in the order of the target *)
FileOrder(swapped, endian) ==
    IF swapped THEN (IF endian = "little" THEN "big" ELSE "little") ELSE endian

FileHeaderBytes(h, swapped, endian) == pack_fh(h, FileOrder(swapped, endian))

RawRecordHeader(sec, subsec, incl, orig) ==
    [ts_sec |-> sec, ts_usec |-> subsec, incl_len |-> incl, orig_len |-> orig]

RecordBytes(rh, data, swapped, endian) ==
    pack_rh(rh, FileOrder(swapped, endian)) \o data

Payload(tag, n) == [i \in 1..n |-> tag + i]

DropLast(s, n) == SubSeq(s, 1, Len(s) - n)

Endians == {"little", "big"}

(* Headers that vary in magic, version and snaplen, followed by one record *)
HeaderInputs(endian) ==
    { FileHeaderBytes(RawFileHeader(m, v[1], v[2], <<0, 0>>, sl, <<0, 1>>), sw, endian)
        \o RecordBytes(RawRecordHeader(<<0, 1>>, <<0, 1>>, <<0, 1>>, <<0, 1>>),
                       Payload(64, 1), sw, endian) :
        m \in {PcapMagic_into("Normal"), PcapMagic_into("NanoSecondResolution"),
               <<41394, 50133>>, <<0, 0>>},
        v \in {<<2, 4>>, <<2, 5>>, <<1, 4>>, <<512, 1024>>},
        sl \in {<<0, 0>>, <<0, 1>>, Num(1610612736), Num(1610612737), <<96, 0>>,
                U32Max},
        sw \in BOOLEAN }

SubsecValues ==
    {<<0, 1>>, Num(999999), Num(1000000), Num(4294968), Num(999999999),
     Num(1000000000), U32Max}

FirstRecords ==
    { [h |-> RawRecordHeader(sec, sub, IF incl > MaxPayload THEN U32Max ELSE Num(incl),
                             orig),
       data |-> Payload(64, IF incl > MaxPayload THEN MaxPayload ELSE incl)] :
        sec \in {<<0, 0>>, U32Max},
        sub \in SubsecValues,
        incl \in 0..(MaxPayload + 1),
        orig \in {<<0, 1>>, U32Max} }

SecondRecords ==
    { <<>>,
      <<[h |-> RawRecordHeader(<<0, 7>>, <<0, 9>>, <<0, 1>>, <<0, 1>>),
         data |-> Payload(128, 1)]>>,
      <<[h |-> RawRecordHeader(<<0, 7>>, Num(1000000000), <<0, 3>>, <<0, 2>>),
         data |-> Payload(128, 3)]>> }

RECURSIVE RecordsBytes(_, _, _)
RecordsBytes(recs, swapped, endian) ==
    IF recs = <<>> THEN <<>>
    ELSE RecordBytes(recs[1].h, recs[1].data, swapped, endian)
           \o RecordsBytes(Tail(recs), swapped, endian)

(* Valid headers followed by records that vary, possibly cut short *)
RecordInputs(endian) ==
    { DropLast(FileHeaderBytes(RawFileHeader(m, 2, 4, zone, <<0, 2>>, <<0, 1>>),
                               sw, endian)
                 \o RecordsBytes(<<r1>> \o r2, sw, endian), cut) :
        m \in {PcapMagic_into("Normal"), PcapMagic_into("NanoSecondResolution")},
        zone \in {<<0, 0>>, <<-1, 65535>>},
        sw \in BOOLEAN,
        r1 \in FirstRecords,
        r2 \in SecondRecords,
        cut \in 0..MaxCut }

Inputs(endian) ==
    HeaderInputs(endian) \cup RecordInputs(endian) \cup {<<>>, <<161, 178>>}

(* What a source that had reached its end may supply later *)
Yields(endian) ==
    { RecordBytes(RawRecordHeader(<<0, 7>>, <<0, 9>>, <<0, 1>>, <<0, 1>>),
                  Payload(192, 1), FALSE, endian),
      <<1, 2, 3>> }

-----------------------------------------------------------------------------
(* The Decoder driven by its caller *)

NoCall == [op |-> "none", rpos |-> 0, active |-> FALSE]

NoWriter ==
    /\ sink = <<>> /\ wpos = 0 /\ wopts = None
    /\ wres = [kind |-> "Init"] /\ written = <<>> /\ want = <<>>

Init ==
    /\ target_endian \in Endians
    /\ feature_time \in BOOLEAN
    /\ input \in Inputs(target_endian)
    /\ rpos = 0
    /\ opened = "no"
    /\ state = None
    /\ ropts = None
    /\ res = [kind |-> "Init"]
    /\ last = NoCall
    /\ pc = "caller"
    /\ NoWriter

New ==
    /\ pc = "caller" /\ opened = "no"
    /\ LET r == PcapReader_new(input, target_endian)
       IN  /\ opened' = IF r.res.kind = "Opened" THEN "yes" ELSE "failed"
           /\ state' = r.state
           /\ ropts' = r.opts
           /\ res' = r.res
           /\ rpos' = r.pos
    /\ last' = [op |-> "new", rpos |-> rpos, active |-> FALSE]
    /\ UNCHANGED <<target_endian, feature_time, input, pc, sink, wpos, wopts, wres,
                   written, want>>

NextCall(io_error) ==
    /\ pc = "caller" /\ opened = "yes"
    /\ LET r == PcapReader_next(input, rpos, state, target_endian, feature_time,
                                io_error)
       IN  /\ state' = r.state
           /\ res' = r.res
           /\ rpos' = r.pos
           /\ pc' = IF r.res = Panic THEN "panicked" ELSE pc
    /\ last' = [op |-> IF io_error THEN "next_io_error" ELSE "next",
                rpos |-> rpos, active |-> state.some]
    /\ UNCHANGED <<target_endian, feature_time, input, opened, ropts, sink, wpos,
                   wopts, wres, written, want>>

Next_ == NextCall(FALSE)

NextIoError == NextCall(TRUE)

(* The source supplies more bytes after it had reported its end *)
SourceYields ==
    /\ pc = "caller" /\ opened = "yes" /\ res = Ok_None
    /\ Len(want) < MaxYield
    /\ \E y \in Yields(target_endian) : input' = input \o y
    /\ want' = Append(want, "yield")
    /\ last' = [op |-> "yield", rpos |-> rpos, active |-> state.some]
    /\ UNCHANGED <<target_endian, feature_time, rpos, opened, state, ropts, res, pc,
                   sink, wpos, wopts, wres, written>>

Next == New \/ Next_ \/ NextIoError \/ SourceYields

Spec == Init /\ [][Next]_vars

-----------------------------------------------------------------------------
(* Decoding a whole stream: what a loop over next sees, up to and including *)
(* the first result that is not a packet.                                   *)

RECURSIVE DecodeFrom(_, _, _, _, _)
DecodeFrom(stream, pos, st, endian, time_feature) ==
    LET r == PcapReader_next(stream, pos, st, endian, time_feature, FALSE)
    IN  IF r.res.kind = "Packet"
          THEN <<r.res>> \o DecodeFrom(stream, r.pos, r.state, endian, time_feature)
          ELSE <<r.res>>

(* PcapReader::new on stream, then next until it returns no packet *)
DecodeAll(stream, endian, time_feature) ==
    LET r == PcapReader_new(stream, endian)
    IN  IF r.res.kind = "Opened"
          THEN [opts |-> r.opts,
                results |-> DecodeFrom(stream, r.pos, r.state, endian, time_feature)]
          ELSE [opts |-> None, results |-> <<r.res>>]

-----------------------------------------------------------------------------
(* Decode, encode with the options of the input, decode again: the loop of  *)
(* fuzz_target_1.rs and of write.rs test::parse.                            *)

InitRT ==
    /\ target_endian \in Endians
    /\ feature_time \in BOOLEAN
    /\ input \in Inputs(target_endian)
    /\ rpos = 0
    /\ opened = "no"
    /\ state = None
    /\ ropts = None
    /\ res = [kind |-> "Init"]
    /\ last = NoCall
    /\ pc = "open"
    /\ NoWriter

(* PcapReader::new(data) and, when it succeeds, PcapWriter::new(.., opts) *)
Open ==
    /\ pc = "open"
    /\ LET r == PcapReader_new(input, target_endian)
           w == PcapWriter_new(<<>>, 0, r.opts, target_endian)
       IN  /\ opened' = IF r.res.kind = "Opened" THEN "yes" ELSE "failed"
           /\ state' = r.state
           /\ ropts' = r.opts
           /\ res' = r.res
           /\ rpos' = r.pos
           /\ IF r.res.kind = "Opened"
                THEN /\ wres' = w.res
                     /\ sink' = w.bytes
                     /\ wpos' = w.pos
                     /\ wopts' = w.opts
                     /\ pc' = IF w.res.kind = "Writer" THEN "read" ELSE "panicked"
                ELSE /\ UNCHANGED <<wres, sink, wpos, wopts>>
                     /\ pc' = "not_opened"
    /\ last' = [op |-> "new", rpos |-> rpos, active |-> FALSE]
    /\ UNCHANGED <<target_endian, feature_time, input, written, want>>

(* while let Ok(Some(packet)) = pcapr.next() *)
ReadPacket ==
    /\ pc = "read"
    /\ LET r == PcapReader_next(input, rpos, state, target_endian, feature_time,
                                FALSE)
       IN  /\ state' = r.state
           /\ res' = r.res
           /\ rpos' = r.pos
           /\ pc' = IF r.res.kind = "Packet" THEN "write" ELSE "compare"
    /\ last' = [op |-> "next", rpos |-> rpos, active |-> state.some]
    /\ UNCHANGED <<target_endian, feature_time, input, opened, ropts, sink, wpos,
                   wopts, wres, written, want>>

(* pcapw.write(&packet): InvalidDate is noted, any other error is unwrapped *)
WritePacket ==
    /\ pc = "write"
    /\ LET packet == [time |-> res.time, data |-> res.data, orig_len |-> res.orig_len]
           w == PcapWriter_write(sink, wpos, wopts, packet, target_endian)
       IN  /\ wres' = w.res
           /\ sink' = w.bytes
           /\ wpos' = w.pos
           /\ written' = Append(written, w.res.kind = "Written")
           /\ want' = IF w.res.kind = "Written" THEN Append(want, res) ELSE want
           /\ pc' = IF w.res \in {[kind |-> "Written"], Err("InvalidDate")}
                      THEN "read" ELSE "panicked"
    /\ last' = [op |-> "write", rpos |-> rpos, active |-> state.some]
    /\ UNCHANGED <<target_endian, feature_time, input, rpos, opened, state, ropts,
                   res, wopts>>

NextRT == Open \/ ReadPacket \/ WritePacket

SpecRT == InitRT /\ [][NextRT]_vars

(* C1: decoding what the Encoder wrote, under the options of the input,    *)
(* yields the same options and exactly the packets for which write          *)
(* succeeded, in order, followed by Ok(None).                               *)
C1_RoundTrip ==
    pc = "compare" =>
        LET again == DecodeAll(sink, target_endian, feature_time)
        IN  /\ again.opts = ropts
            /\ again.results = want \o <<Ok_None>>

-----------------------------------------------------------------------------
(* The Encoder driven by its caller: create a file, write packets, reopen   *)
(* the buffer for appending and write more (lib.rs test::read_write).       *)

MaxWrites == 2

FileOptions(snaplen, linktype, high_res, non_native) ==
    [some |-> TRUE, snaplen |-> snaplen, linktype |-> linktype,
     high_res_timestamps |-> high_res, non_native_byte_order |-> non_native]

CreateOptions ==
    { FileOptions(sl, lt, hr, nn) :
        sl \in {<<0, 0>>, <<0, 2>>, Num(1610612736), <<65536, 0>>},
        lt \in {<<0, 0>>, <<0, 1>>},
        hr \in BOOLEAN,
        nn \in BOOLEAN }

CapturedPacket(sec, nsec, data, orig_len) ==
    [kind |-> "Packet", time |-> [sec |-> sec, nsec |-> nsec], data |-> data,
     orig_len |-> orig_len]

(* what a caller may hand to write *)
Packets ==
    { CapturedPacket(<<0, 1>>, <<0, 0>>, Payload(32, 1), <<0, 1>>),
      CapturedPacket(<<0, 1>>, <<0, 1000>>, Payload(32, 2), <<0, 5>>),
      CapturedPacket(<<0, 0>>, <<0, 1>>, <<>>, <<0, 0>>),
      CapturedPacket(U32Max, Num(999999499), Payload(48, 1), U32Max),
      CapturedPacket(<<0, 2>>, Num(999999500), Payload(48, 2), <<0, 2>>),
      CapturedPacket(<<0, 3>>, Num(999999999), <<>>, <<0, 9>>),
      CapturedPacket(<<0, 4>>, Num(999999000), Payload(64, MaxPayload),
                     Num(MaxPayload)),
      CapturedPacket(<<65536, 0>>, <<0, 0>>, Payload(80, 1), <<0, 1>>),
      CapturedPacket(<<-1, 65535>>, <<0, 0>>, Payload(80, 1), <<0, 1>>),
      CapturedPacket(<<0, 5>>, <<0, 0>>, Payload(96, 1), <<65536, 0>>) }

InitW ==
    /\ target_endian \in Endians
    /\ feature_time \in BOOLEAN
    /\ input = <<>> /\ rpos = 0 /\ opened = "no" /\ state = None /\ ropts = None
    /\ res = [kind |-> "Init"]
    /\ last = NoCall
    /\ pc = "create"
    /\ sink = <<>> /\ wpos = 0 /\ wopts = None /\ wres = [kind |-> "Init"]
    /\ written = <<>>
    /\ want = [opts |-> None, packets |-> <<>>, appended |-> FALSE, file |-> <<>>]

(* PcapWriter::new(Vec::new(), opts) *)
Create ==
    /\ pc = "create"
    /\ \E opts \in CreateOptions :
         LET w == PcapWriter_new(<<>>, 0, opts, target_endian)
         IN  /\ wres' = w.res
             /\ sink' = w.bytes
             /\ wpos' = w.pos
             /\ wopts' = w.opts
             /\ want' = [want EXCEPT !.opts = opts]
             /\ pc' = IF w.res.kind = "Writer" THEN "writing" ELSE "create_failed"
    /\ last' = [op |-> "create", rpos |-> 0, active |-> FALSE]
    /\ UNCHANGED <<target_endian, feature_time, input, rpos, opened, state, ropts,
                   res, written>>

(* writer.write(&p) *)
Write ==
    /\ pc = "writing"
    /\ Len(written) < MaxWrites
    /\ \E p \in Packets :
         LET w == PcapWriter_write(sink, wpos, wopts, p, target_endian)
         IN  /\ wres' = w.res
             /\ sink' = w.bytes
             /\ wpos' = w.pos
             /\ written' = Append(written, w.res.kind = "Written")
             /\ want' = IF w.res.kind = "Written"
                          THEN [want EXCEPT !.packets = Append(@, p)]
                          ELSE want
             /\ last' = [op |-> "write", rpos |-> 0, active |-> FALSE, packet |-> p]
    /\ UNCHANGED <<target_endian, feature_time, input, rpos, opened, state, ropts,
                   res, pc, wopts>>

(* take_writer, then PcapWriter::append on the buffer: wrapped in a new     *)
(* Cursor (cursor 0) or taken as it is (a Vec, which writes at its end),    *)
(* with the options the caller passes.                                      *)
AppendTo ==
    /\ pc = "writing"
    /\ ~want.appended
    /\ Len(written) < MaxWrites
    /\ \E opts \in {want.opts,
                    [want.opts EXCEPT !.high_res_timestamps = ~@]},
          at \in {0, Len(sink)} :
         LET w == PcapWriter_append(sink, at, opts)
         IN  /\ wres' = w.res
             /\ sink' = w.bytes
             /\ wpos' = w.pos
             /\ wopts' = w.opts
    /\ want' = [want EXCEPT !.appended = TRUE, !.file = sink]
    /\ last' = [op |-> "append", rpos |-> 0, active |-> FALSE]
    /\ UNCHANGED <<target_endian, feature_time, input, rpos, opened, state, ropts,
                   res, pc, written>>

NextW == Create \/ Write \/ AppendTo

SpecW == InitW /\ [][NextW]_vars

C10_CheckedAppend ==
    want.appended =>
        /\ wopts = want.opts
        /\ last.op = "append" => (sink = want.file /\ wpos = Len(sink))
        /\ LET d == DecodeAll(sink, target_endian, feature_time)
           IN  /\ d.opts = want.opts
               /\ d.results = want.packets \o <<Ok_None>>

-----------------------------------------------------------------------------
(* One capture laid out under each of the four magic numbers and decoded    *)
(* by four readers (read.rs test::format_variations).                       *)

(* the variants, in the order of raw_pcaps: be_ns, be_us, le_ns, le_us *)
Variants ==
    <<[order |-> "big", nano |-> TRUE], [order |-> "big", nano |-> FALSE],
      [order |-> "little", nano |-> TRUE], [order |-> "little", nano |-> FALSE]>>

LogicalPackets ==
    { [sec |-> sec, usec |-> usec, data |-> Payload(64, n), orig_len |-> orig] :
        sec \in {<<1, 0>>, <<22096, 28186>>, U32Max},
        usec \in {0, 405474, 999999},
        n \in 0..MaxPayload,
        orig \in {<<0, 60>>, U32Max} }

Captures ==
    { [snaplen |-> sl, linktype |-> <<0, 101>>, zone |-> zone,
       packets |-> <<p1>> \o p2] :
        sl \in {<<0, 2>>, <<0, 65535>>},
        zone \in {<<0, 0>>, <<-1, 65535>>},
        p1 \in LogicalPackets,
        p2 \in {<<>>,
                <<[sec |-> <<0, 7>>, usec |-> 1, data |-> Payload(128, 1),
                   orig_len |-> <<0, 1>>]>>} }

RECURSIVE VariantRecords(_, _, _, _)
VariantRecords(packets, nano, swapped, endian) ==
    IF packets = <<>> THEN <<>>
    ELSE LET p == packets[1]
             subsec == IF nano THEN Num(p.usec * 1000) ELSE Num(p.usec)
         IN  RecordBytes(RawRecordHeader(p.sec, subsec, Num(Len(p.data)),
                                         p.orig_len),
                         p.data, swapped, endian)
               \o VariantRecords(Tail(packets), nano, swapped, endian)

VariantBytes(c, v, endian) ==
    LET swapped == v.order # endian
        magic == IF v.nano THEN "NanoSecondResolution" ELSE "Normal"
    IN  FileHeaderBytes(RawFileHeader(PcapMagic_into(magic), 2, 4, c.zone,
                                      c.snaplen, c.linktype),
                        swapped, endian)
          \o VariantRecords(c.packets, v.nano, swapped, endian)

InitV ==
    /\ target_endian \in Endians
    /\ feature_time \in BOOLEAN
    /\ \E c \in Captures :
         /\ want = [capture |-> c, decoded |-> <<>>, current |-> <<>>]
         /\ input = VariantBytes(c, Variants[1], target_endian)
    /\ rpos = 0 /\ opened = "no" /\ state = None /\ ropts = None
    /\ res = [kind |-> "Init"]
    /\ last = NoCall
    /\ pc = "v_open"
    /\ sink = <<>> /\ wpos = 0 /\ wopts = None /\ wres = [kind |-> "Init"]
    /\ written = <<>>

(* PcapReader::new(&pcap[..]).unwrap() *)
OpenVariant ==
    /\ pc = "v_open"
    /\ LET r == PcapReader_new(input, target_endian)
       IN  /\ opened' = IF r.res.kind = "Opened" THEN "yes" ELSE "failed"
           /\ state' = r.state
           /\ ropts' = r.opts
           /\ res' = r.res
           /\ rpos' = r.pos
           /\ pc' = IF r.res.kind = "Opened" THEN "v_next" ELSE "panicked"
    /\ last' = [op |-> "new", rpos |-> rpos, active |-> FALSE]
    /\ UNCHANGED <<target_endian, feature_time, input, sink, wpos, wopts, wres,
                   written, want>>

(* r.next() on the reader of the current variant; after the call that       *)
(* returns no packet the caller turns to the next variant.                  *)
NextVariant ==
    /\ pc = "v_next"
    /\ LET r == PcapReader_next(input, rpos, state, target_endian, feature_time,
                                FALSE)
           seen == Append(want.current, r.res)
           done == Append(want.decoded, seen)
       IN  /\ res' = r.res
           /\ IF r.res.kind = "Packet"
                THEN /\ want' = [want EXCEPT !.current = seen]
                     /\ state' = r.state
                     /\ rpos' = r.pos
                     /\ UNCHANGED <<input, opened, pc>>
                ELSE /\ want' = [want EXCEPT !.current = <<>>, !.decoded = done]
                     /\ IF Len(done) = Len(Variants)
                          THEN /\ pc' = "v_done"
                               /\ state' = r.state
                               /\ rpos' = r.pos
                               /\ UNCHANGED <<input, opened>>
                          ELSE /\ pc' = "v_open"
                               /\ input' = VariantBytes(want.capture,
                                                        Variants[Len(done) + 1],
                                                        target_endian)
                               /\ rpos' = 0
                               /\ opened' = "no"
                               /\ state' = None
    /\ last' = [op |-> "next", rpos |-> rpos, active |-> state.some]
    /\ UNCHANGED <<target_endian, feature_time, ropts, sink, wpos, wopts, wres,
                   written>>

NextV == OpenVariant \/ NextVariant

SpecV == InitV /\ [][NextV]_vars

(* the packet that a logical packet of the capture stands for *)
ExpectedPacket(c, p) ==
    CapturedPacket(NumAdd(p.sec, c.zone), Num(p.usec * 1000),
                   IF NumLt(c.snaplen, Num(Len(p.data)))
                     THEN Slice(p.data, 0, NumInt(c.snaplen))
                     ELSE p.data,
                   p.orig_len)

(* C9: the same capture under each of the four magic numbers decodes to     *)
(* the same sequence of packets (time, data, orig_len: those of the         *)
(* capture), followed by Ok(None).                                          *)
C9_FormatVariations ==
    pc = "v_done" =>
        /\ Len(want.decoded) = 4
        /\ \A i \in 1..4 :
             want.decoded[i] =
                 [k \in 1..Len(want.capture.packets) |->
                     ExpectedPacket(want.capture, want.capture.packets[k])]
                   \o <<Ok_None>>

C9_Witness ==
    /\ pc = "v_done"
    /\ Len(want.capture.packets) = 2
    /\ want.capture.packets[1].usec = 405474
    /\ Len(want.capture.packets[1].data) = 3
    /\ want.capture.snaplen = <<0, 2>>
    /\ Len(want.decoded) = 4
    /\ want.decoded[4][1].kind = "Packet"

-----------------------------------------------------------------------------
(* Properties of the Decoder.  What a property expects is computed from the *)
(* bytes of the input, independently of the operators above.                *)

CalledNext == last.op = "next"

(* bytes of the source that the last call found unread *)
AvailBefore == Len(input) - last.rpos

(* the value of 4 bytes that are in the order of the file *)
FieldValue(b, swapped) ==
    LET msb_first == IF (target_endian = "big") = swapped
                       THEN <<b[4], b[3], b[2], b[1]>>
                       ELSE b
    IN  <<msb_first[1] * 256 + msb_first[2], msb_first[3] * 256 + msb_first[4]>>

(* the record header that the last call of next found, as the file means it *)
FoundRecord ==
    LET sw == ropts.non_native_byte_order
    IN  [ts_sec |-> FieldValue(Slice(input, last.rpos, 4), sw),
         ts_subsec |-> FieldValue(Slice(input, last.rpos + 4, 4), sw),
         incl_len |-> FieldValue(Slice(input, last.rpos + 8, 4), sw),
         orig_len |-> FieldValue(Slice(input, last.rpos + 12, 4), sw)]

FoundHeader == CalledNext /\ last.active /\ AvailBefore >= 16

(* the sub-second field of the found record is in range for the file *)
FoundSubsecValid ==
    IF ropts.high_res_timestamps
      THEN NumLt(FoundRecord.ts_subsec, Num(1000000000))
      ELSE NumLt(FoundRecord.ts_subsec, Num(1000000))

(* C2: once next has returned Ok(None), every further call of next (on a    *)
(* source that reports nothing but data and end-of-stream) returns Ok(None) *)
(* again: no error, no packet, no panic.                                    *)
C2_ExhaustionIsIdempotent ==
    (CalledNext /\ ~last.active) => res = Ok_None

(* C3: at the record header, end-of-stream after no byte exhausts the       *)
(* Decoder and returns Ok(None); end-of-stream after 1 to 15 bytes is an Io *)
(* error and leaves the Decoder Active.                                     *)
C3_PartialHeaderIsIoError ==
    (CalledNext /\ last.active) =>
        /\ AvailBefore = 0 => (res = Ok_None /\ ~state.some)
        /\ AvailBefore \in 1..15 => (res = Err("Io") /\ state.some)

(* the found record declares more payload than snaplen, and the source     *)
(* holds all of that payload                                               *)
OversizedRecordFound ==
    /\ FoundHeader
    /\ NumLt(ropts.snaplen, FoundRecord.incl_len)
    /\ NumLe(FoundRecord.incl_len, Num(AvailBefore - 16))

(* the time of the found record can be represented *)
FoundTimeValid ==
    /\ FoundSubsecValid
    /\ \/ feature_time
       \/ IsU64(NumAdd(FoundRecord.ts_sec,
                       AsI32(FieldValue(Slice(input, 8, 4),
                                        ropts.non_native_byte_order))))

(* the input with the found record cut down to snaplen bytes of payload *)
InputNotOversized ==
    LET file_endian == IF ropts.non_native_byte_order
                         THEN CHOOSE e \in Endians : e # target_endian
                         ELSE target_endian
        n == NumInt(ropts.snaplen)
    IN  Slice(input, 0, last.rpos + 8) \o BytesU32(ropts.snaplen, file_endian)
          \o Slice(input, last.rpos + 12, 4 + n)
          \o Slice(input, rpos, Len(input) - rpos)

(* the call after the last one returns what it returns on InputNotOversized *)
FollowingAsIfNotOversized ==
    LET a1 == PcapReader_next(InputNotOversized, last.rpos, state, target_endian,
                              feature_time, FALSE)
        a2 == PcapReader_next(InputNotOversized, a1.pos, a1.state, target_endian,
                              feature_time, FALSE)
        b2 == PcapReader_next(input, rpos, state, target_endian, feature_time, FALSE)
    IN  /\ a1.res = res
        /\ a2.res = b2.res
        /\ a2.state = b2.state
        /\ Len(InputNotOversized) - a2.pos = Len(input) - b2.pos

ConsumedWholeRecord ==
    Num(rpos) = NumAdd(Num(last.rpos + 16), FoundRecord.incl_len)

(* C4, as claimed: a record whose incl_len exceeds snaplen, with all its    *)
(* payload in the stream, is returned as a packet holding the first snaplen *)
(* payload bytes; next consumes 16 + incl_len bytes and the following call  *)
(* decodes the following record as if the record had not been oversized.    *)
C4_OversizedAlwaysReturned ==
    OversizedRecordFound =>
        /\ res.kind = "Packet"
        /\ res.data = Slice(input, last.rpos + 16, NumInt(ropts.snaplen))
        /\ ConsumedWholeRecord
        /\ FollowingAsIfNotOversized

(* C4, amended: such a record whose timestamp is valid is returned as a     *)
(* packet holding the first snaplen payload bytes, and one whose timestamp  *)
(* is invalid fails with InvalidDate; in both cases next consumes           *)
(* 16 + incl_len bytes and the following call decodes the following record  *)
(* as if the record had not been oversized.                                 *)
C4_OversizedTruncated ==
    OversizedRecordFound =>
        /\ FoundTimeValid =>
              /\ res.kind = "Packet"
              /\ res.data = Slice(input, last.rpos + 16, NumInt(ropts.snaplen))
        /\ ~FoundTimeValid => res = Err("InvalidDate")
        /\ ConsumedWholeRecord
        /\ FollowingAsIfNotOversized

C4_Witness ==
    /\ OversizedRecordFound
    /\ FoundTimeValid
    /\ res.kind = "Packet"
    /\ Len(res.data) = 2
    /\ Len(input) - rpos >= 16

(* C5: whenever next returns InvalidDate or InvalidPacketSize, exactly      *)
(* 16 + incl_len bytes of the failing record were consumed and the Decoder  *)
(* is still Active.                                                         *)
C5_RecordErrorLeavesCursorAligned ==
    (CalledNext /\ res \in {Err("InvalidDate"), Err("InvalidPacketSize")}) =>
        /\ state.some
        /\ ConsumedWholeRecord

(* the header that PcapReader::new found, as the file means it *)
MagicBytes == Slice(input, 0, 4)

Reversed4(b) == <<b[4], b[3], b[2], b[1]>>

MicroMagicBytes == <<161, 178, 195, 212>>     \* a1 b2 c3 d4

NanoMagicBytes == <<161, 178, 60, 77>>        \* a1 b2 3c 4d

MagicKnown ==
    MagicBytes \in {MicroMagicBytes, NanoMagicBytes,
                    Reversed4(MicroMagicBytes), Reversed4(NanoMagicBytes)}

MagicIsNano == MagicBytes \in {NanoMagicBytes, Reversed4(NanoMagicBytes)}

(* the magic reads as a known value only after its bytes are swapped *)
MagicIsSwapped ==
    IF target_endian = "big"
      THEN MagicBytes \in {Reversed4(MicroMagicBytes), Reversed4(NanoMagicBytes)}
      ELSE MagicBytes \in {MicroMagicBytes, NanoMagicBytes}

FileValue16(b) ==
    IF (target_endian = "big") = MagicIsSwapped
      THEN b[2] * 256 + b[1]
      ELSE b[1] * 256 + b[2]

VersionSupported ==
    /\ FileValue16(Slice(input, 4, 2)) = 2
    /\ FileValue16(Slice(input, 6, 2)) = 4

HeaderSnaplen == FieldValue(Slice(input, 16, 4), MagicIsSwapped)

CalledNewOnHeader == last.op = "new" /\ Len(input) >= 24

(* C6: construction succeeds only on a known magic and, after byte-swapping *)
(* for a swapped magic, version 2.4; any other magic or version fails with  *)
(* InvalidFileHeader and yields no Decoder; on success the two format       *)
(* options are those the magic encodes.                                     *)
C6_MagicAndVersion ==
    CalledNewOnHeader =>
        /\ res.kind = "Opened" => (MagicKnown /\ VersionSupported)
        /\ ~(MagicKnown /\ VersionSupported) =>
              /\ res = Err("InvalidFileHeader")
              /\ opened = "failed" /\ ~state.some /\ ~ropts.some
        /\ res.kind = "Opened" =>
              /\ ropts.high_res_timestamps = MagicIsNano
              /\ ropts.non_native_byte_order = MagicIsSwapped

C6_Witness ==
    /\ CalledNewOnHeader
    /\ res.kind = "Opened"
    /\ ropts.high_res_timestamps
    /\ ropts.non_native_byte_order

(* C7: with a valid magic and version, construction fails with              *)
(* InvalidFileHeader and allocates no buffer when snaplen is above          *)
(* 0x60000000; otherwise it succeeds with a buffer of exactly snaplen bytes.*)
C7_SnaplenCeiling ==
    (CalledNewOnHeader /\ MagicKnown /\ VersionSupported) =>
        IF NumLt(Num(1610612736), HeaderSnaplen)
          THEN res = Err("InvalidFileHeader") /\ ~state.some
          ELSE /\ res.kind = "Opened"
               /\ state.some
               /\ state.packet_buffer_len = HeaderSnaplen
               /\ ropts.snaplen = HeaderSnaplen

C7_Witness ==
    /\ CalledNewOnHeader /\ MagicKnown /\ VersionSupported
    /\ MagicIsSwapped
    /\ HeaderSnaplen = Num(1610612737)
    /\ res = Err("InvalidFileHeader")

-----------------------------------------------------------------------------
(* Properties of the Encoder.  The record that the last write produced lies *)
(* in the sink just before the sink's cursor.                               *)

CalledWrite == last.op = "write"

(* the time of the packet handed to write is at or after the epoch and its  *)
(* seconds fit 32 bits                                                      *)
WrittenTimeValid ==
    /\ last.packet.time.sec[1] >= 0
    /\ last.packet.time.sec[1] <= 65535

WrittenOrigLenFits == last.packet.orig_len[1] \in 0..65535

(* min(data.len(), snaplen) of the packet handed to write *)
ClampedLen ==
    IF NumLt(wopts.snaplen, Num(Len(last.packet.data)))
      THEN NumInt(wopts.snaplen)
      ELSE Len(last.packet.data)

(* C11: for every packet with a valid time and an orig_len that fits 32     *)
(* bits, write succeeds and the record it leaves in the sink has            *)
(* incl_len = min(data.len(), snaplen), the packet's orig_len and exactly   *)
(* the first incl_len bytes of the packet's data.                           *)
C11_WriteClampsToSnaplen ==
    (CalledWrite /\ WrittenTimeValid /\ WrittenOrigLenFits) =>
        /\ wres.kind = "Written"
        /\ LET at == wpos - 16 - ClampedLen
               sw == wopts.non_native_byte_order
           IN  /\ at >= 0
               /\ FieldValue(Slice(sink, at + 8, 4), sw) = Num(ClampedLen)
               /\ FieldValue(Slice(sink, at + 12, 4), sw) = last.packet.orig_len
               /\ Slice(sink, at + 16, ClampedLen)
                    = Slice(last.packet.data, 0, ClampedLen)

-----------------------------------------------------------------------------
(* Properties of the packets that the Decoder returns *)

ReturnedPacket == CalledNext /\ res.kind = "Packet"

(* C12: every packet that next returns has data.len() <= orig_len, whatever *)
(* the record header declares.                                              *)
C12_DataWithinOrigLen ==
    ReturnedPacket => NumLe(Num(Len(res.data)), res.orig_len)

-----------------------------------------------------------------------------
(* Properties of the times that the Encoder stores *)

(* two times (seconds at full width, nanoseconds below 10^9) are at most    *)
(* one millisecond apart                                                    *)
WithinOneMillisecond(a, b) ==
    LET d == NumSub(b.sec, a.sec)
        an == NumInt(a.nsec)
        bn == NumInt(b.nsec)
    IN  \/ d = <<0, 0>> /\ bn - an <= 1000000 /\ an - bn <= 1000000
        \/ d = <<0, 1>> /\ bn + 1000000000 - an <= 1000000
        \/ d = <<-1, 65535>> /\ an + 1000000000 - bn <= 1000000

(* where the record of the last write starts in the sink *)
WrittenAt == wpos - 16 - Len(last.packet.data)

(* a Decoder of the sink reading the record of the last write *)
WrittenDecoded ==
    PcapReader_next(sink, WrittenAt, PcapReader_new(sink, target_endian).state,
                    target_endian, feature_time, FALSE).res

(* C14: a packet that write accepts under microsecond options is stored     *)
(* with a sub-second field below 1,000,000; the record decodes to a packet, *)
(* and the decoded time is within 1 millisecond of the packet's time.       *)
C14_MicrosecondStore ==
    (CalledWrite /\ ~want.appended /\ wres.kind = "Written"
       /\ ~wopts.high_res_timestamps) =>
        /\ NumLt(FieldValue(Slice(sink, WrittenAt + 4, 4),
                            wopts.non_native_byte_order),
                 Num(1000000))
        /\ WrittenDecoded.kind = "Packet"
        /\ WithinOneMillisecond(last.packet.time, WrittenDecoded.time)

-----------------------------------------------------------------------------
(* Properties of the sink *)

(* the sink is a 24-byte header followed by whole records: from offset pos, *)
(* each record header is followed by the incl_len bytes it declares         *)
RECURSIVE WholeRecordsFrom(_, _, _)
WholeRecordsFrom(bytes, pos, swapped) ==
    IF pos = Len(bytes) THEN TRUE
    ELSE IF Len(bytes) - pos < 16 THEN FALSE
    ELSE LET incl == FieldValue(Slice(bytes, pos + 8, 4), swapped)
         IN  IF NumLt(Num(Len(bytes) - pos - 16), incl) THEN FALSE
             ELSE WholeRecordsFrom(bytes, pos + 16 + NumInt(incl), swapped)

HeaderAndWholeRecords ==
    Len(sink) >= 24 /\ WholeRecordsFrom(sink, 24, wopts.non_native_byte_order)

(* the bytes that the records of the accepted packets take *)
RECURSIVE RecordsLength(_)
RecordsLength(packets) ==
    IF packets = <<>> THEN 0
    ELSE 16 + Len(packets[1].data) + RecordsLength(Tail(packets))

(* C16: write returns InvalidDate when the packet's time precedes the epoch *)
(* or its seconds do not fit 32 bits, and InvalidPacketSize when orig_len   *)
(* does not fit 32 bits (and the time is valid); a rejected packet leaves   *)
(* no byte in the sink, which holds the header followed by the whole        *)
(* records of the accepted packets, its cursor at the end.                  *)
C16_ValidatesBeforeWriting ==
    /\ (CalledWrite /\ ~WrittenTimeValid) => wres = Err("InvalidDate")
    /\ (CalledWrite /\ WrittenTimeValid /\ ~WrittenOrigLenFits) =>
          wres = Err("InvalidPacketSize")
    /\ (pc = "writing" /\ ~want.appended) =>
          /\ Len(sink) = 24 + RecordsLength(want.packets)
          /\ wpos = Len(sink)
          /\ HeaderAndWholeRecords

C16_Witness ==
    /\ CalledWrite
    /\ ~want.appended
    /\ Len(want.packets) = 1
    /\ Len(written) = 2
    /\ wres = Err("InvalidDate")
    /\ last.packet.time.sec = <<-1, 65535>>
    /\ Len(sink) = 24 + 16 + MaxPayload

-----------------------------------------------------------------------------
(* Properties of truncated streams *)

(* the found record header is complete and declares more payload than the   *)
(* source holds                                                             *)
PayloadCutShort ==
    /\ FoundHeader
    /\ NumLt(Num(AvailBefore - 16), FoundRecord.incl_len)

(* C17: if the stream ends inside a record's payload (a complete record     *)
(* header followed by fewer than incl_len bytes), next returns an Io error, *)
(* whether or not incl_len exceeds snaplen.                                 *)
C17_TruncatedPayloadIsIoError ==
    PayloadCutShort => res = Err("Io")

-----------------------------------------------------------------------------
(* Properties of the time that the Decoder returns *)

(* the last call of next found a record header and the payload it reads, so *)
(* it went on to decode the time                                            *)
TimeDecoded ==
    /\ FoundHeader
    /\ NumLe(NumMin(FoundRecord.incl_len, ropts.snaplen), Num(AvailBefore - 16))

(* thiszone of the file header, as the file means it *)
FoundZone ==
    AsI32(FieldValue(Slice(input, 8, 4), ropts.non_native_byte_order))

FoundSeconds == NumAdd(FoundRecord.ts_sec, FoundZone)

(* the sub-second field of the found record in nanoseconds, when in range *)
FoundNanos ==
    IF ropts.high_res_timestamps
      THEN FoundRecord.ts_subsec
      ELSE Num(NumInt(FoundRecord.ts_subsec) * 1000)

(* C15, as claimed: next fails with InvalidDate exactly when the sub-second *)
(* field is out of range (ts_subsec >= 1,000,000,000 in a nanosecond file,  *)
(* ts_subsec >= 1,000,000 in a microsecond file, overflowing products       *)
(* included) or ts_sec + utc_offset is negative; otherwise the time is      *)
(* ts_sec + utc_offset seconds and the normalised nanoseconds after the     *)
(* epoch.                                                                   *)
C15_NegativeSecondsRejected ==
    TimeDecoded =>
        IF FoundSubsecValid /\ FoundSeconds[1] >= 0
          THEN /\ res.kind = "Packet"
               /\ res.time = [sec |-> FoundSeconds, nsec |-> FoundNanos]
          ELSE res = Err("InvalidDate")

(* C15, amended: as above, but negative seconds are rejected only where the *)
(* build's time type cannot represent them (Time is SystemTime); where Time *)
(* is Timespec they are returned as a time before the epoch.                *)
C15_TimeDecode ==
    TimeDecoded =>
        IF FoundTimeValid
          THEN /\ res.kind = "Packet"
               /\ res.time = [sec |-> FoundSeconds, nsec |-> FoundNanos]
          ELSE res = Err("InvalidDate")

C15_Witness ==
    /\ TimeDecoded
    /\ ~ropts.high_res_timestamps
    /\ FoundRecord.ts_subsec = Num(4294968)
    /\ res = Err("InvalidDate")

=============================================================================
